---- MODULE Spec2Model ----
(***************************************************************************)
(* Request-authorization pipeline of the NestJS user-management service:   *)
(* in-memory UsersService, the route metadata of UsersController and       *)
(* AuthController, and the guard chain JwtAuthGuard -> RolesGuard ->       *)
(* OwnershipGuard that every request walks before its handler runs.        *)
(*                                                                         *)
(* OwnershipGuard, UsersService, the controllers and the decorators are    *)
(* translated from their sources.  JwtAuthGuard / JwtStrategy, RolesGuard  *)
(* and AuthService are not part of the source tree (only their unit tests  *)
(* and callers are); they are modelled from the specification text and the *)
(* tests.  Date fields (createdAt, updatedAt, timestamp) are omitted.      *)
(*                                                                         *)
(* A request here is one the transport layer admitted and routed: helmet,  *)
(* CORS, csurf (main.ts), the global ThrottlerGuard (app.module.ts) and    *)
(* the ValidationPipe lie outside the authorization pipeline, and every    *)
(* body drawn below is a DTO the ValidationPipe accepts.                   *)
(*                                                                         *)
(* Spec runs the requests one at a time, each through its guard chain and  *)
(* handler; SpecUnit applies a single guard to an arbitrary execution      *)
(* context, as roles.guard.spec.ts does.                                   *)
(***************************************************************************)
EXTENDS Integers, Sequences, FiniteSets, TLC

VARIABLES
  users,          \* UsersService.users : User[]
  userPasswords,  \* UsersService.userPasswords : Map<id, hash>
  issued,         \* claim sets of the tokens signed so far by AuthService.login
  req,            \* per request slot: position in the pipeline and request context
                  \* (trace, verified and epoch record its history: the guards
                  \* run, whether the Token Verifier was called, and the number
                  \* of store writes completed when the request arrived)
  writes,         \* number of store mutations performed so far
  removed,        \* ids whose remove() completed and that were not re-activated since
  everRemoved,    \* ids whose remove() completed at some point
  lastRole,       \* id -> role of the last completed update(id, {role}) ("" if none)
  unit            \* a guard applied in isolation to one execution context

vars == <<users, userPasswords, issued, req, writes, removed, everRemoved, lastRole, unit>>

appVars == <<users, userPasswords, issued, req, writes, removed, everRemoved, lastRole>>

-----------------------------------------------------------------------------
(* Bounds *)

MaxWrites == 2

MaxTokens == 2

-----------------------------------------------------------------------------
(* user.types.ts *)

\* the enum written with a capitalised value
ADMIN_capitalised == "Admin"

ADMIN == "admin"

MODERATOR == "moderator"

USER == "user"

UserRole == {ADMIN, MODERATOR, USER}

\* JavaScript undefined, as the value of a missing path parameter
Undefined == "<undefined>"

\* request.user before any strategy attached a payload (falsy)
NoUser == [sub |-> "", email |-> "", username |-> "", role |-> ""]

Digits == <<"0", "1", "2", "3", "4", "5", "6", "7", "8", "9">>

RECURSIVE toString(_)
\* Number.prototype.toString for a non-negative integer
toString(n) ==
  IF n < 10 THEN Digits[n + 1]
  ELSE toString(n \div 10) \o Digits[(n % 10) + 1]

\* bcrypt.hash(password, 10): a one-way image of the password
bcryptHash(password) == "$2b$10$" \o password

\* bcrypt.compare(password, hash)
bcryptCompare(password, hash) == hash = bcryptHash(password)

\* object spread {...a, ...b}: the fields of b override those of a
Spread(a, b) ==
  [f \in (DOMAIN a) \cup (DOMAIN b) |-> IF f \in DOMAIN b THEN b[f] ELSE a[f]]

\* the record r without the fields in fs
Omit(r, fs) == [f \in (DOMAIN r) \ fs |-> r[f]]

RECURSIVE Join(_, _)
\* Array.prototype.join
Join(s, sep) ==
  IF Len(s) = 0 THEN ""
  ELSE IF Len(s) = 1 THEN s[1]
  ELSE s[1] \o sep \o Join(Tail(s), sep)

\* Array.prototype.includes
Includes(s, x) == \E i \in 1..Len(s) : s[i] = x

-----------------------------------------------------------------------------
(* UsersService: the in-memory store *)

SeedUsers ==
  << [id |-> "1", email |-> "admin@example.com", username |-> "admin",
      role |-> ADMIN, isActive |-> TRUE],
     [id |-> "2", email |-> "user@example.com", username |-> "user",
      role |-> USER, isActive |-> TRUE] >>

SeedPasswords == [i \in {"1", "2"} |-> bcryptHash("password123")]

\* Array.prototype.findIndex on users by id; 0 stands for -1 (not found)
findIndex(us, id) ==
  IF \E i \in 1..Len(us) : us[i].id = id
  THEN CHOOSE i \in 1..Len(us) :
         /\ us[i].id = id
         /\ \A j \in 1..(i - 1) : us[j].id # id
  ELSE 0

\* this.userPasswords.get(id) || ''
passwordOf(pw, id) == IF id \in DOMAIN pw THEN pw[id] ELSE ""

\* UsersService.findAll
findAll(us) == SelectSeq(us, LAMBDA u : u.isActive)

\* UsersService.findById: <<>> is null, <<u>> the user with its password hash
findById(us, pw, id) ==
  LET i == findIndex(us, id)
  IN IF i = 0 THEN <<>>
     ELSE << Spread(us[i], [password |-> passwordOf(pw, id)]) >>

\* UsersService.findByEmail searching the active records only
findByEmail_activeOnly(us, pw, email) ==
  IF \E i \in 1..Len(us) : us[i].email = email /\ us[i].isActive
  THEN LET i == CHOOSE k \in 1..Len(us) :
                  /\ us[k].email = email /\ us[k].isActive
                  /\ \A j \in 1..(k - 1) : ~(us[j].email = email /\ us[j].isActive)
       IN << Spread(us[i], [password |-> passwordOf(pw, us[i].id)]) >>
  ELSE <<>>

\* UsersService.findByEmail: first record with that email, or null
findByEmail(us, pw, email) ==
  IF \E i \in 1..Len(us) : us[i].email = email
  THEN LET i == CHOOSE k \in 1..Len(us) :
                  /\ us[k].email = email
                  /\ \A j \in 1..(k - 1) : us[j].email # email
       IN << Spread(us[i], [password |-> passwordOf(pw, us[i].id)]) >>
  ELSE <<>>

\* the record of a create that numbers the active users only
newUser_countActive(us, dto) ==
  [id |-> toString(Len(findAll(us)) + 1),
   email |-> dto.email,
   username |-> dto.username,
   role |-> IF "role" \in DOMAIN dto THEN dto.role ELSE USER,
   isActive |-> TRUE]

\* the record UsersService.create builds from its DTO
newUser(us, dto) ==
  [id |-> toString(Len(us) + 1),
   email |-> dto.email,
   username |-> dto.username,
   role |-> IF "role" \in DOMAIN dto THEN dto.role ELSE USER,
   isActive |-> TRUE]

\* the update written {...updateUserDto, ...user}: stored fields win
updatedUser_storedWins(user, dto) == Spread(dto, user)

\* the record UsersService.update stores at users[userIndex]
updatedUser(user, dto) == Spread(user, dto)

\* UsersService.remove that drops the password but leaves the record active
deactivated_passwordOnly(us, i) == us

\* UsersService.remove written as a hard delete: users.splice(userIndex, 1)
deactivated_spliced(us, i) == SubSeq(us, 1, i - 1) \o SubSeq(us, i + 1, Len(us))

\* the users array after UsersService.remove flagged users[i]
deactivated(us, i) == [us EXCEPT ![i].isActive = FALSE]

\* Map.prototype.delete
mapDelete(pw, id) == [k \in (DOMAIN pw) \ {id} |-> pw[k]]

\* Map.prototype.set
mapSet(pw, id, v) == [k \in (DOMAIN pw) \cup {id} |-> IF k = id THEN v ELSE pw[k]]

-----------------------------------------------------------------------------
(* Route metadata: the decorators of UsersController and AuthController *)

Routes ==
  {"POST /users", "GET /users", "GET /users/profile", "GET /users/:id",
   "PATCH /users/:id", "DELETE /users/:id", "POST /auth/login"}

\* the public flag with @Public() missing on UsersController.create
isPublic_loginOnly(route) == route = "POST /auth/login"

\* @Public(): SetMetadata(IS_PUBLIC_KEY, true)
isPublic(route) == route \in {"POST /users", "POST /auth/login"}

\* the role metadata with @Roles(UserRole.ADMIN) alone on findAll
requiredRoles_adminOnly(route) ==
  IF route \in {"GET /users", "DELETE /users/:id"}
    THEN [defined |-> TRUE, roles |-> <<ADMIN>>]
  ELSE [defined |-> FALSE, roles |-> <<>>]

\* @Roles(...roles): SetMetadata(ROLES_KEY, roles); undefined where not declared
requiredRoles(route) ==
  IF route = "GET /users"
    THEN [defined |-> TRUE, roles |-> <<ADMIN, MODERATOR>>]
  ELSE IF route = "DELETE /users/:id"
    THEN [defined |-> TRUE, roles |-> <<ADMIN>>]
  ELSE [defined |-> FALSE, roles |-> <<>>]

\* the class-level guard list written @UseGuards(RolesGuard, JwtAuthGuard)
classGuards_rolesFirst(route) ==
  IF route = "POST /auth/login" THEN <<>>
  ELSE <<"RolesGuard", "JwtAuthGuard">>

\* the class-level guard list without JwtAuthGuard
classGuards_noJwt(route) ==
  IF route = "POST /auth/login" THEN <<>>
  ELSE <<"RolesGuard">>

\* @UseGuards on the controller class, in declaration order
classGuards(route) ==
  IF route = "POST /auth/login" THEN <<>>
  ELSE <<"JwtAuthGuard", "RolesGuard">>

\* the handler methods without @UseGuards(OwnershipGuard)
methodGuards_none(route) == <<>>

\* @UseGuards on the handler method
methodGuards(route) ==
  IF route \in {"GET /users/:id", "PATCH /users/:id"}
  THEN <<"OwnershipGuard">>
  ELSE <<>>

\* guards run class-level first, then method-level, each list left to right
Guards(route) == classGuards(route) \o methodGuards(route)

-----------------------------------------------------------------------------
(* Guards.  A decision is pass, or an HttpException (status, message). *)

Pass == [pass |-> TRUE, status |-> 0, message |-> ""]

Throw(status, message) == [pass |-> FALSE, status |-> status, message |-> message]

\* ForbiddenException / UnauthorizedException status codes
Forbidden == 403

Unauthorized == 401

\* Token Verifier: signature valid under the secret and not expired
jwtVerify(token) == token.kind = "valid"

\* AuthService.validateUserById that does not look at isActive
validateUserById_existsOnly(us, pw, id) ==
  LET found == findById(us, pw, id)
  IN IF found = <<>> THEN NoUser
     ELSE [sub |-> found[1].id, email |-> found[1].email,
           username |-> found[1].username, role |-> found[1].role]

\* AuthService.validateUserById: payload from the stored record, or null (NoUser)
validateUserById(us, pw, id) ==
  LET found == findById(us, pw, id)
  IN IF found = <<>> THEN NoUser
     ELSE IF ~found[1].isActive THEN NoUser
     ELSE [sub |-> found[1].id, email |-> found[1].email,
           username |-> found[1].username, role |-> found[1].role]

\* a strategy that trusts the claims of a verified token without a lookup
JwtAuthGuard_user_claimsOnly(public, token, us, pw) ==
  IF public THEN NoUser
  ELSE IF token.kind = "none" THEN NoUser
  ELSE IF ~jwtVerify(token) THEN NoUser
  ELSE token.claims

\* the payload JwtAuthGuard attaches as request.user (NoUser: none attached)
JwtAuthGuard_user(public, token, us, pw) ==
  IF public THEN NoUser
  ELSE IF token.kind = "none" THEN NoUser
  ELSE IF ~jwtVerify(token) THEN NoUser
  ELSE validateUserById(us, pw, token.claims.sub)

\* JwtAuthGuard.canActivate reporting why the token was refused
JwtAuthGuard_canActivate_reason(public, token, us, pw) ==
  IF public THEN Pass
  ELSE IF token.kind = "expired" THEN Throw(Unauthorized, "jwt expired")
  ELSE IF token.kind = "malformed" THEN Throw(Unauthorized, "jwt malformed")
  ELSE IF token.kind = "badsig" THEN Throw(Unauthorized, "invalid signature")
  ELSE IF validateUserById(us, pw, token.claims.sub) = NoUser \/ token.kind = "none"
    THEN Throw(Unauthorized, "Unauthorized")
  ELSE Pass

\* JwtAuthGuard.canActivate
JwtAuthGuard_canActivate(public, token, us, pw) ==
  IF public THEN Pass
  ELSE IF JwtAuthGuard_user(public, token, us, pw) = NoUser
    THEN Throw(Unauthorized, "Unauthorized")
  ELSE Pass

\* whether JwtAuthGuard hands the token to the Token Verifier
JwtAuthGuard_verifies(public, token) == ~public /\ token.kind # "none"

\* RolesGuard.canActivate with a hierarchy: an admin passes every role list
RolesGuard_canActivate_adminAll(required, user) ==
  IF ~required.defined \/ Len(required.roles) = 0 THEN Pass
  ELSE IF user = NoUser THEN Throw(Forbidden, "User not authenticated")
  ELSE IF user.role = ADMIN \/ Includes(required.roles, user.role) THEN Pass
  ELSE Throw(Forbidden,
             "Access denied. Required roles: " \o Join(required.roles, ", ")
               \o ". Your role: " \o user.role)

\* RolesGuard.canActivate testing only !requiredRoles: an empty list is truthy
RolesGuard_canActivate_undefinedOnly(required, user) ==
  IF ~required.defined THEN Pass
  ELSE IF user = NoUser THEN Throw(Forbidden, "User not authenticated")
  ELSE IF Includes(required.roles, user.role) THEN Pass
  ELSE Throw(Forbidden,
             "Access denied. Required roles: " \o Join(required.roles, ", ")
               \o ". Your role: " \o user.role)

\* RolesGuard.canActivate
RolesGuard_canActivate(required, user) ==
  IF ~required.defined \/ Len(required.roles) = 0 THEN Pass
  ELSE IF user = NoUser THEN Throw(Forbidden, "User not authenticated")
  ELSE IF Includes(required.roles, user.role) THEN Pass
  ELSE Throw(Forbidden,
             "Access denied. Required roles: " \o Join(required.roles, ", ")
               \o ". Your role: " \o user.role)

\* request.params[name]
param(params, name) == IF name \in DOMAIN params THEN params[name] ELSE Undefined

\* a || b on strings and undefined
orElse(a, b) == IF a = Undefined \/ a = "" THEN b ELSE a

\* OwnershipGuard.canActivate letting a request without request.user through
OwnershipGuard_canActivate_noUserCheck(user, params) ==
  LET resourceUserId == orElse(param(params, "userId"), param(params, "id"))
  IN IF user = NoUser THEN Pass
     ELSE IF user.role = ADMIN THEN Pass
     ELSE IF user.sub # resourceUserId
       THEN Throw(Forbidden, "You can only access your own resources")
     ELSE Pass

\* OwnershipGuard.canActivate comparing user.id, which the payload does not
\* carry, with the path parameter: no non-admin ever owns anything
OwnershipGuard_canActivate_userId(user, params) ==
  IF user = NoUser THEN Throw(Forbidden, "User not authenticated")
  ELSE IF user.role = ADMIN THEN Pass
  ELSE Throw(Forbidden, "You can only access your own resources")

\* OwnershipGuard.canActivate keeping count: an identity that another request
\* context already passed with is refused
OwnershipGuard_canActivate_once(user, params) ==
  LET resourceUserId == orElse(param(params, "userId"), param(params, "id"))
  IN IF user = NoUser THEN Throw(Forbidden, "User not authenticated")
     ELSE IF \E o \in DOMAIN req :
               /\ req[o].user = user
               /\ Includes(req[o].trace, "OwnershipGuard")
               /\ req[o].pc # "done"
       THEN Throw(Forbidden, "Too many requests")
     ELSE IF user.role = ADMIN THEN Pass
     ELSE IF user.sub # resourceUserId
       THEN Throw(Forbidden, "You can only access your own resources")
     ELSE Pass

\* OwnershipGuard.canActivate looking the target up before it decides: a
\* target id that no stored user has is answered 404
OwnershipGuard_canActivate_existsFirst(user, params) ==
  LET resourceUserId == orElse(param(params, "userId"), param(params, "id"))
  IN IF user = NoUser THEN Throw(Forbidden, "User not authenticated")
     ELSE IF findIndex(users, resourceUserId) = 0 THEN Throw(404, "User not found")
     ELSE IF user.role = ADMIN THEN Pass
     ELSE IF user.sub # resourceUserId
       THEN Throw(Forbidden, "You can only access your own resources")
     ELSE Pass

\* OwnershipGuard.canActivate
OwnershipGuard_canActivate(user, params) ==
  LET resourceUserId == orElse(param(params, "userId"), param(params, "id"))
  IN IF user = NoUser THEN Throw(Forbidden, "User not authenticated")
     ELSE IF user.role = ADMIN THEN Pass
     ELSE IF user.sub # resourceUserId
       THEN Throw(Forbidden, "You can only access your own resources")
     ELSE Pass

-----------------------------------------------------------------------------
(* Requests *)

\* request slots; the sequential specification uses the first only
Reqs == {"r1", "r2"}

SeqReqs == {"r1"}

NoToken == [kind |-> "none", claims |-> NoUser]

\* claims of a token an attacker signs with a key of their own
ForgedClaims ==
  [sub |-> "1", email |-> "admin@example.com", username |-> "admin", role |-> ADMIN]

\* the Authorization headers a client can send: none, garbage, a forgery, or a
\* token AuthService.login signed, possibly past its expiry
Tokens ==
  {NoToken, [kind |-> "malformed", claims |-> NoUser],
   [kind |-> "badsig", claims |-> ForgedClaims]}
  \cup {[kind |-> k, claims |-> c] : k \in {"valid", "expired"}, c \in issued}

TargetIds == {"1", "2", "3"}

CreateDtos ==
  {[email |-> e, username |-> "newuser", password |-> "password123"] :
     e \in {"newuser@example.com", "admin@example.com"}}
  \cup {[email |-> e, username |-> "newuser", password |-> "password123",
         role |-> ADMIN] : e \in {"newuser@example.com", "admin@example.com"}}

UpdateDtos ==
  {[role |-> ADMIN], [role |-> MODERATOR], [isActive |-> TRUE],
   [isActive |-> FALSE], [email |-> "admin@example.com"],
   [username |-> "updateduser"]}

LoginDtos ==
  {[email |-> e, password |-> p] :
     e \in {"admin@example.com", "user@example.com", "newuser@example.com"},
     p \in {"password123", "wrongpassword"}}

Bodies(route) ==
  IF route = "POST /users" THEN CreateDtos
  ELSE IF route = "PATCH /users/:id" THEN UpdateDtos
  ELSE IF route = "POST /auth/login" THEN LoginDtos
  ELSE {<<>>}

ParamsOf(route) ==
  IF route \in {"GET /users/:id", "PATCH /users/:id", "DELETE /users/:id"}
  THEN {[id |-> i] : i \in TargetIds}
  ELSE {<<>>}

WriteRoutes == {"POST /users", "PATCH /users/:id", "DELETE /users/:id"}

NoResp == [status |-> 0, message |-> "", data |-> <<>>]

\* a request context that holds claims before any guard ran
IdleReq_staleUser ==
  [pc |-> "idle", route |-> "", token |-> NoToken, params |-> <<>>,
   body |-> <<>>, user |-> ForgedClaims, gi |-> 0, trace |-> <<>>,
   verified |-> FALSE, epoch |-> 0, resp |-> NoResp]

IdleReq ==
  [pc |-> "idle", route |-> "", token |-> NoToken, params |-> <<>>,
   body |-> <<>>, user |-> NoUser, gi |-> 0, trace |-> <<>>,
   verified |-> FALSE, epoch |-> 0, resp |-> NoResp]

NoUnit ==
  [pc |-> "off", required |-> [defined |-> FALSE, roles |-> <<>>],
   user |-> NoUser, params |-> <<>>, roles |-> Pass, ownership |-> Pass]

Init ==
  /\ users = SeedUsers
  /\ userPasswords = SeedPasswords
  /\ issued = {}
  /\ req = [r \in Reqs |-> IdleReq]
  /\ writes = 0
  /\ removed = {}
  /\ everRemoved = {}
  /\ lastRole = <<>>
  /\ unit = NoUnit

\* a request arrives and is routed; its guards have not run yet
Start(r, route, token, params, body) ==
  /\ req[r].pc = "idle"
  /\ route \in WriteRoutes => writes < MaxWrites
  /\ route = "POST /auth/login" => Cardinality(issued) < MaxTokens
  /\ req' = [req EXCEPT ![r] =
       [IdleReq EXCEPT !.pc = IF Len(Guards(route)) = 0 THEN "handler" ELSE "guards",
                       !.route = route, !.token = token, !.params = params,
                       !.body = body, !.gi = 1, !.epoch = writes]]
  /\ UNCHANGED <<users, userPasswords, issued, writes, removed, everRemoved,
                 lastRole, unit>>

\* the request context after the guard at position gi decided
Guarded(q, name, decision, user, verified) ==
  IF decision.pass
  THEN [q EXCEPT !.user = user, !.verified = verified,
                 !.trace = Append(q.trace, name), !.gi = q.gi + 1,
                 !.pc = IF q.gi + 1 > Len(Guards(q.route)) THEN "handler"
                        ELSE "guards"]
  ELSE [q EXCEPT !.verified = verified, !.trace = Append(q.trace, name),
                 !.pc = "done",
                 !.resp = [status |-> decision.status,
                           message |-> decision.message, data |-> <<>>]]

AtGuard(r, name) ==
  /\ req[r].pc = "guards"
  /\ req[r].gi \in 1..Len(Guards(req[r].route))
  /\ Guards(req[r].route)[req[r].gi] = name

JwtAuthGuardStep(r) ==
  /\ AtGuard(r, "JwtAuthGuard")
  /\ LET q == req[r]
         public == isPublic(q.route)
     IN req' = [req EXCEPT ![r] =
          Guarded(q, "JwtAuthGuard",
                  JwtAuthGuard_canActivate(public, q.token, users, userPasswords),
                  JwtAuthGuard_user(public, q.token, users, userPasswords),
                  JwtAuthGuard_verifies(public, q.token))]
  /\ UNCHANGED <<users, userPasswords, issued, writes, removed, everRemoved,
                 lastRole, unit>>

RolesGuardStep(r) ==
  /\ AtGuard(r, "RolesGuard")
  /\ LET q == req[r]
     IN req' = [req EXCEPT ![r] =
          Guarded(q, "RolesGuard",
                  RolesGuard_canActivate(requiredRoles(q.route), q.user),
                  q.user, q.verified)]
  /\ UNCHANGED <<users, userPasswords, issued, writes, removed, everRemoved,
                 lastRole, unit>>

OwnershipGuardStep(r) ==
  /\ AtGuard(r, "OwnershipGuard")
  /\ LET q == req[r]
     IN req' = [req EXCEPT ![r] =
          Guarded(q, "OwnershipGuard",
                  OwnershipGuard_canActivate(q.user, q.params),
                  q.user, q.verified)]
  /\ UNCHANGED <<users, userPasswords, issued, writes, removed, everRemoved,
                 lastRole, unit>>

-----------------------------------------------------------------------------
(* Handlers: the controller methods and the service calls they make *)

AtHandler(r, route) == req[r].pc = "handler" /\ req[r].route = route

\* the handler ran to its end: an ApiResponse, or the exception it threw
Done(q, status, message, data) ==
  [q EXCEPT !.pc = "done", !.trace = Append(q.trace, "handler"),
            !.resp = [status |-> status, message |-> message, data |-> data]]

\* UsersController.create, up to the await of bcrypt.hash in UsersService.create
CreateCheck(r) ==
  /\ AtHandler(r, "POST /users")
  /\ LET q == req[r]
     IN req' = [req EXCEPT ![r] =
          IF findByEmail(users, userPasswords, q.body.email) # <<>>
          THEN Done(q, 409, "User with this email already exists", <<>>)
          ELSE [q EXCEPT !.pc = "hashing"]]
  /\ UNCHANGED <<users, userPasswords, issued, writes, removed, everRemoved,
                 lastRole, unit>>

\* UsersService.create after the hash resolved, and the controller's response
CreateInsert(r) ==
  /\ req[r].pc = "hashing"
  /\ LET q == req[r]
         created == newUser(users, q.body)
     IN /\ users' = Append(users, created)
        /\ userPasswords' = mapSet(userPasswords, created.id, bcryptHash(q.body.password))
        /\ req' = [req EXCEPT ![r] =
             Done(q, 201, "User created successfully", <<created>>)]
  /\ writes' = writes + 1
  /\ UNCHANGED <<issued, removed, everRemoved, lastRole, unit>>

\* UsersController.findAll
FindAll(r) ==
  /\ AtHandler(r, "GET /users")
  /\ req' = [req EXCEPT ![r] =
       Done(req[r], 200, "Users retrieved successfully", findAll(users))]
  /\ UNCHANGED <<users, userPasswords, issued, writes, removed, everRemoved,
                 lastRole, unit>>

\* UsersController.getProfile: findById(currentUser.sub)
GetProfile(r) ==
  /\ AtHandler(r, "GET /users/profile")
  /\ req' = [req EXCEPT ![r] =
       Done(req[r], 200, "Profile retrieved successfully",
            findById(users, userPasswords, req[r].user.sub))]
  /\ UNCHANGED <<users, userPasswords, issued, writes, removed, everRemoved,
                 lastRole, unit>>

\* UsersController.findOne
FindOne(r) ==
  /\ AtHandler(r, "GET /users/:id")
  /\ req' = [req EXCEPT ![r] =
       Done(req[r], 200, "User retrieved successfully",
            findById(users, userPasswords, param(req[r].params, "id")))]
  /\ UNCHANGED <<users, userPasswords, issued, writes, removed, everRemoved,
                 lastRole, unit>>

\* UsersController.update and UsersService.update
Update(r) ==
  /\ AtHandler(r, "PATCH /users/:id")
  /\ LET q == req[r]
         id == param(q.params, "id")
         userIndex == findIndex(users, id)
     IN IF userIndex = 0
        THEN /\ req' = [req EXCEPT ![r] = Done(q, 404, "User not found", <<>>)]
             /\ UNCHANGED <<users, writes, removed, lastRole>>
        ELSE /\ users' = [users EXCEPT ![userIndex] = updatedUser(users[userIndex], q.body)]
             /\ req' = [req EXCEPT ![r] =
                  Done(q, 200, "User updated successfully",
                       <<updatedUser(users[userIndex], q.body)>>)]
             /\ writes' = writes + 1
             /\ removed' = IF "isActive" \in DOMAIN q.body /\ q.body.isActive
                           THEN removed \ {id} ELSE removed
             /\ lastRole' = IF "role" \in DOMAIN q.body
                            THEN mapSet(lastRole, id, q.body.role) ELSE lastRole
  /\ UNCHANGED <<userPasswords, issued, everRemoved, unit>>

\* UsersController.remove and UsersService.remove
Remove(r) ==
  /\ AtHandler(r, "DELETE /users/:id")
  /\ LET q == req[r]
         id == param(q.params, "id")
         userIndex == findIndex(users, id)
     IN IF userIndex = 0
        THEN /\ req' = [req EXCEPT ![r] = Done(q, 404, "User not found", <<>>)]
             /\ UNCHANGED <<users, userPasswords, writes, removed, everRemoved>>
        ELSE /\ users' = deactivated(users, userIndex)
             /\ userPasswords' = mapDelete(userPasswords, id)
             /\ req' = [req EXCEPT ![r] =
                  Done(q, 200, "User deleted successfully", <<>>)]
             /\ writes' = writes + 1
             /\ removed' = removed \cup {id}
             /\ everRemoved' = everRemoved \cup {id}
  /\ UNCHANGED <<issued, lastRole, unit>>

\* AuthService.validateUser that does not look at isActive
validateUser_activeUnchecked(us, pw, email, password) ==
  LET found == findByEmail(us, pw, email)
  IN IF found = <<>> THEN <<>>
     ELSE IF ~bcryptCompare(password, found[1].password) THEN <<>>
     ELSE << Omit(found[1], {"password"}) >>

\* AuthService.validateUser: the stored user without its password, or null
validateUser(us, pw, email, password) ==
  LET found == findByEmail(us, pw, email)
  IN IF found = <<>> THEN <<>>
     ELSE IF ~bcryptCompare(password, found[1].password) THEN <<>>
     ELSE IF ~found[1].isActive THEN <<>>
     ELSE << Omit(found[1], {"password"}) >>

\* a payload whose subject is the e-mail address
loginPayload_emailSub(user) ==
  [sub |-> user.email, email |-> user.email, username |-> user.username,
   role |-> user.role]

\* the payload AuthService.login signs
loginPayload(user) ==
  [sub |-> user.id, email |-> user.email, username |-> user.username,
   role |-> user.role]

\* the user object AuthService.login returns next to the token
loginUser(user) ==
  [id |-> user.id, email |-> user.email, username |-> user.username,
   role |-> user.role, isActive |-> user.isActive]

\* AuthController.login and AuthService.login
Login(r) ==
  /\ AtHandler(r, "POST /auth/login")
  /\ LET q == req[r]
         valid == validateUser(users, userPasswords, q.body.email, q.body.password)
     IN IF valid = <<>>
        THEN /\ req' = [req EXCEPT ![r] =
                  Done(q, Unauthorized, "Invalid credentials", <<>>)]
             /\ UNCHANGED issued
        ELSE /\ issued' = issued \cup {loginPayload(valid[1])}
             /\ req' = [req EXCEPT ![r] =
                  Done(q, 201, "Login successful",
                       << [access_token |-> loginPayload(valid[1]),
                           user |-> loginUser(valid[1])] >>)]
  /\ UNCHANGED <<users, userPasswords, writes, removed, everRemoved, lastRole, unit>>

\* the response is sent and the request context is dropped
Finish(r) ==
  /\ req[r].pc = "done"
  /\ req' = [req EXCEPT ![r] = IdleReq]
  /\ UNCHANGED <<users, userPasswords, issued, writes, removed, everRemoved,
                 lastRole, unit>>

Arrive(r) ==
  \E route \in Routes : \E token \in Tokens :
    \E params \in ParamsOf(route) : \E body \in Bodies(route) :
      Start(r, route, token, params, body)

\* one request at a time: a request arrives only when no other is in flight
Next ==
  \E r \in SeqReqs :
    \/ (\A o \in Reqs : req[o].pc = "idle") /\ Arrive(r)
    \/ JwtAuthGuardStep(r)
    \/ RolesGuardStep(r)
    \/ OwnershipGuardStep(r)
    \/ CreateCheck(r)
    \/ CreateInsert(r)
    \/ FindAll(r)
    \/ GetProfile(r)
    \/ FindOne(r)
    \/ Update(r)
    \/ Remove(r)
    \/ Login(r)
    \/ Finish(r)

Spec == Init /\ [][Next]_vars

-----------------------------------------------------------------------------
(* Concurrent requests: both request slots are in use, and the guard steps   *)
(* and handlers of the two requests interleave at their awaits.              *)

ConcRoutes == {"PATCH /users/:id", "DELETE /users/:id", "POST /auth/login"}

ConcTokens(route) ==
  IF route = "POST /auth/login" THEN {NoToken}
  ELSE {NoToken, [kind |-> "badsig", claims |-> ForgedClaims]}
       \cup {[kind |-> "valid", claims |-> c] : c \in issued}

ConcParams(route) ==
  IF route = "POST /auth/login" THEN {<<>>}
  ELSE {[id |-> i] : i \in {"1", "2"}}

ConcBodies(route) ==
  IF route = "PATCH /users/:id"
    THEN {[role |-> MODERATOR]}
  ELSE IF route = "POST /auth/login"
    THEN {[email |-> e, password |-> "password123"] :
            e \in {"admin@example.com", "user@example.com"}}
  ELSE {<<>>}

ArriveConc(r) ==
  \E route \in ConcRoutes : \E token \in ConcTokens(route) :
    \E params \in ConcParams(route) : \E body \in ConcBodies(route) :
      Start(r, route, token, params, body)

\* a request arrives at any time; every step of either request may come next
NextConc ==
  \E r \in Reqs :
    \/ ArriveConc(r)
    \/ JwtAuthGuardStep(r)
    \/ RolesGuardStep(r)
    \/ OwnershipGuardStep(r)
    \/ Update(r)
    \/ Remove(r)
    \/ Login(r)
    \/ Finish(r)

SpecConc == Init /\ [][NextConc]_vars

-----------------------------------------------------------------------------
(* Concurrent store operations: create, update and remove of UsersService,   *)
(* called by two requests whose handlers interleave at the awaits of create. *)

RaceRoutes ==
  {"POST /users", "PATCH /users/:id", "DELETE /users/:id", "POST /auth/login"}

RaceTokens(route) ==
  IF isPublic(route) THEN {NoToken}
  ELSE {[kind |-> "valid", claims |-> c] : c \in issued}

RaceParams(route) ==
  IF route \in {"PATCH /users/:id", "DELETE /users/:id"}
  THEN {[id |-> i] : i \in TargetIds}
  ELSE {<<>>}

RaceBodies(route) ==
  IF route = "POST /users"
    THEN {[email |-> e, username |-> "newuser", password |-> "password123"] :
            e \in {"newuser@example.com", "user@example.com"}}
  ELSE IF route = "PATCH /users/:id"
    THEN {[email |-> "admin@example.com"]}
  ELSE IF route = "POST /auth/login"
    THEN {[email |-> e, password |-> "password123"] :
            e \in {"admin@example.com", "user@example.com"}}
  ELSE {<<>>}

ArriveRace(r) ==
  \E route \in RaceRoutes : \E token \in RaceTokens(route) :
    \E params \in RaceParams(route) : \E body \in RaceBodies(route) :
      Start(r, route, token, params, body)

NextRace ==
  \E r \in Reqs :
    \/ ArriveRace(r)
    \/ JwtAuthGuardStep(r)
    \/ RolesGuardStep(r)
    \/ OwnershipGuardStep(r)
    \/ CreateCheck(r)
    \/ CreateInsert(r)
    \/ Update(r)
    \/ Remove(r)
    \/ Login(r)
    \/ Finish(r)

SpecRace == Init /\ [][NextRace]_vars

-----------------------------------------------------------------------------
(* The guards applied in isolation, as their unit tests do: an execution    *)
(* context with arbitrary route metadata, request.user and request.params.  *)

UnitRoleLists ==
  {<<>>} \cup {<<a>> : a \in UserRole} \cup {<<a, b>> : a, b \in UserRole}

UnitRequired ==
  {[defined |-> FALSE, roles |-> <<>>]}
  \cup {[defined |-> TRUE, roles |-> l] : l \in UnitRoleLists}

UnitUsers ==
  {NoUser}
  \cup {[sub |-> i, email |-> "test@example.com", username |-> "testuser",
         role |-> ro] : i \in {"1", "2"}, ro \in UserRole}

UnitParams ==
  {<<>>}
  \cup {[id |-> i] : i \in {"1", "2"}}
  \cup {[userId |-> i] : i \in {"1", "2"}}
  \cup {[userId |-> i, id |-> j] : i \in {"", "1", "2"}, j \in {"1", "2"}}

InitUnit ==
  /\ users = SeedUsers
  /\ userPasswords = SeedPasswords
  /\ issued = {}
  /\ req = [r \in Reqs |-> IdleReq]
  /\ writes = 0
  /\ removed = {}
  /\ everRemoved = {}
  /\ lastRole = <<>>
  /\ unit \in {[NoUnit EXCEPT !.pc = "ready", !.required = rq, !.user = u,
                              !.params = p] :
                 rq \in UnitRequired, u \in UnitUsers, p \in UnitParams}

\* guard.canActivate(mockContext) for RolesGuard
UnitRolesGuard ==
  /\ unit.pc = "ready"
  /\ unit' = [unit EXCEPT !.pc = "roles",
                          !.roles = RolesGuard_canActivate(unit.required, unit.user)]
  /\ UNCHANGED appVars

\* guard.canActivate(context) for OwnershipGuard
UnitOwnershipGuard ==
  /\ unit.pc = "ready"
  /\ unit' = [unit EXCEPT !.pc = "ownership",
                          !.ownership = OwnershipGuard_canActivate(unit.user, unit.params)]
  /\ UNCHANGED appVars

NextUnit == UnitRolesGuard \/ UnitOwnershipGuard

SpecUnit == InitUnit /\ [][NextUnit]_vars

-----------------------------------------------------------------------------
(* What a request's trace says about the stages it went through *)

Evaluated(q, name) == Includes(q.trace, name)

RejectedBy(q, name) ==
  /\ q.pc = "done"
  /\ Len(q.trace) > 0
  /\ q.trace[Len(q.trace)] = name

Passed(q, name) == Evaluated(q, name) /\ ~RejectedBy(q, name)

OwnershipRoutes == {"GET /users/:id", "PATCH /users/:id"}

NonPublicRoutes ==
  {"GET /users", "GET /users/profile", "GET /users/:id", "PATCH /users/:id",
   "DELETE /users/:id"}

-----------------------------------------------------------------------------
(* Claims *)

\* C1: on the ownership-guarded routes GET /users/:id and PATCH /users/:id the
\* OwnershipGuard is evaluated with the authenticated identity before the
\* handler; it passes every Admin whatever the target id, passes a non-Admin
\* exactly when identity.sub equals the target id, and otherwise rejects with
\* 403 'You can only access your own resources'.
C1_OwnershipDecision ==
  \A r \in Reqs :
    LET q == req[r]
    IN q.route \in OwnershipRoutes =>
         /\ (q.pc = "handler" \/ Evaluated(q, "handler")) =>
              Evaluated(q, "OwnershipGuard") /\ q.user # NoUser
         /\ (Evaluated(q, "OwnershipGuard") /\ q.user # NoUser) =>
              /\ Passed(q, "OwnershipGuard") <=>
                   (q.user.role = ADMIN \/ q.user.sub = q.params.id)
              /\ RejectedBy(q, "OwnershipGuard") =>
                   /\ q.resp.status = Forbidden
                   /\ q.resp.message = "You can only access your own resources"

\* a User with sub 2 passed the OwnershipGuard of a route addressed to id 2
C1_Witness ==
  \E r \in Reqs :
    /\ req[r].route \in OwnershipRoutes
    /\ Passed(req[r], "OwnershipGuard")
    /\ req[r].user.role = USER
    /\ req[r].user.sub = "2"
    /\ req[r].params.id = "2"

\* C2: on every route restricted to a non-empty role set R (GET /users:
\* admin, moderator; DELETE /users/:id: admin) the RolesGuard passes an
\* authenticated identity iff its role is in R, and otherwise rejects with 403.
C2_RoleDecision ==
  \A r \in Reqs :
    LET q == req[r]
        R == requiredRoles(q.route)
    IN (Evaluated(q, "RolesGuard") /\ R.defined /\ Len(R.roles) > 0
          /\ q.user # NoUser) =>
         /\ Passed(q, "RolesGuard") <=> Includes(R.roles, q.user.role)
         /\ RejectedBy(q, "RolesGuard") => q.resp.status = Forbidden
         /\ q.route = "GET /users" =>
              (Passed(q, "RolesGuard") <=> q.user.role \in {ADMIN, MODERATOR})
         /\ q.route = "DELETE /users/:id" =>
              (Passed(q, "RolesGuard") <=> q.user.role = ADMIN)

\* a Moderator passed the RolesGuard of GET /users
C2_Witness ==
  \E r \in Reqs :
    /\ req[r].route = "GET /users"
    /\ Passed(req[r], "RolesGuard")
    /\ req[r].user.role = MODERATOR

\* C3: a request without Authorization header on a non-public route is either
\* still waiting for its first guard or was rejected by the JwtAuthGuard with
\* 401, no other guard and no handler having run.
C3_NoTokenRejected ==
  \A r \in Reqs :
    LET q == req[r]
    IN (q.route \in NonPublicRoutes /\ q.token.kind = "none") =>
         \/ q.pc = "guards" /\ q.trace = <<>>
         \/ /\ q.pc = "done"
            /\ q.trace = <<"JwtAuthGuard">>
            /\ q.resp.status = Unauthorized

\* DELETE /users/:id without a token was answered 401
C3_Witness ==
  \E r \in Reqs :
    /\ req[r].route = "DELETE /users/:id"
    /\ req[r].token.kind = "none"
    /\ req[r].pc = "done"
    /\ req[r].resp.status = Unauthorized

\* C4: a request with a malformed, badly signed or expired token on a
\* non-public route is rejected by the JwtAuthGuard, and its response (status
\* and message) equals the one the guard gives a request with no token.
C4_InvalidTokenSameAsNoToken ==
  \A r \in Reqs :
    LET q == req[r]
        none == JwtAuthGuard_canActivate(FALSE, NoToken, users, userPasswords)
    IN (q.route \in NonPublicRoutes
          /\ q.token.kind \in {"malformed", "badsig", "expired"}) =>
         \/ q.pc = "guards" /\ q.trace = <<>>
         \/ /\ q.pc = "done"
            /\ q.trace = <<"JwtAuthGuard">>
            /\ q.resp.status = Unauthorized
            /\ q.resp = [status |-> none.status, message |-> none.message,
                         data |-> <<>>]

\* an expired token that login once signed was answered 401
C4_Witness ==
  \E r \in Reqs :
    /\ req[r].route \in NonPublicRoutes
    /\ req[r].token.kind = "expired"
    /\ req[r].token.claims \in issued
    /\ req[r].pc = "done"
    /\ req[r].resp.status = Unauthorized

\* C5 (as stated): a verified token whose subject is missing or inactive is
\* rejected with 401 on every non-public route, and once remove(id) completed
\* every later request with a token for id is rejected.
C5_RemovedRejectedForever ==
  \A r \in Reqs :
    LET q == req[r]
        sub == q.token.claims.sub
        found == findById(users, userPasswords, sub)
    IN (q.route \in NonPublicRoutes /\ q.token.kind = "valid"
          /\ Evaluated(q, "JwtAuthGuard") /\ ~Evaluated(q, "handler")) =>
         /\ (found = <<>> \/ ~found[1].isActive) =>
              RejectedBy(q, "JwtAuthGuard") /\ q.resp.status = Unauthorized
         /\ sub \in everRemoved =>
              RejectedBy(q, "JwtAuthGuard") /\ q.resp.status = Unauthorized

\* C5 (amended): a verified token is rejected with 401 on a non-public route
\* exactly when its subject is missing from the store or inactive; once
\* remove(id) completed, every later request with a token for id is rejected
\* for as long as no update(id, {isActive: true}) re-activated the account.
C5_InactiveSubjectRejected ==
  \A r \in Reqs :
    LET q == req[r]
        sub == q.token.claims.sub
        found == findById(users, userPasswords, sub)
    IN (q.route \in NonPublicRoutes /\ q.token.kind = "valid"
          /\ Evaluated(q, "JwtAuthGuard") /\ ~Evaluated(q, "handler")) =>
         /\ RejectedBy(q, "JwtAuthGuard") <=> (found = <<>> \/ ~found[1].isActive)
         /\ RejectedBy(q, "JwtAuthGuard") => q.resp.status = Unauthorized
         /\ sub \in removed =>
              RejectedBy(q, "JwtAuthGuard") /\ q.resp.status = Unauthorized

\* a token signed before remove(id) was answered 401 after it
C5_Witness ==
  \E r \in Reqs :
    /\ req[r].route \in NonPublicRoutes
    /\ req[r].token.kind = "valid"
    /\ req[r].token.claims.sub \in removed
    /\ RejectedBy(req[r], "JwtAuthGuard")
    /\ req[r].resp.status = Unauthorized

\* C6: on the public routes POST /users and POST /auth/login no request is
\* rejected by the JwtAuthGuard, the Token Verifier is never invoked, and the
\* identity handed to the later stages is absent, whatever token is sent.
C6_PublicNeverGated ==
  \A r \in Reqs :
    LET q == req[r]
    IN q.route \in {"POST /users", "POST /auth/login"} =>
         /\ ~RejectedBy(q, "JwtAuthGuard")
         /\ ~q.verified
         /\ q.user = NoUser

\* POST /users carrying a valid token went past the JwtAuthGuard unidentified
C6_Witness ==
  \E r \in Reqs :
    /\ req[r].route = "POST /users"
    /\ req[r].token.kind = "valid"
    /\ Passed(req[r], "JwtAuthGuard")
    /\ Evaluated(req[r], "RolesGuard")
    /\ req[r].user = NoUser
    /\ ~req[r].verified

StageOrder == <<"JwtAuthGuard", "RolesGuard", "OwnershipGuard", "handler">>

StageIndex(name) == CHOOSE i \in 1..Len(StageOrder) : StageOrder[i] = name

\* C7: the stages of a request run in the order JwtAuthGuard, RolesGuard,
\* OwnershipGuard, handler and stop at the first failure: a JwtAuthGuard
\* failure answers 401 with neither policy evaluated, a RolesGuard failure
\* answers 403 with the OwnershipGuard not evaluated.
C7_SequentialShortCircuit ==
  \A r \in Reqs :
    LET q == req[r]
    IN /\ \A i, j \in 1..Len(q.trace) :
            i < j => StageIndex(q.trace[i]) < StageIndex(q.trace[j])
       /\ Evaluated(q, "RolesGuard") => Passed(q, "JwtAuthGuard")
       /\ Evaluated(q, "OwnershipGuard") =>
            Passed(q, "JwtAuthGuard") /\ Passed(q, "RolesGuard")
       /\ RejectedBy(q, "JwtAuthGuard") =>
            /\ q.resp.status = Unauthorized
            /\ q.trace = <<"JwtAuthGuard">>
       /\ RejectedBy(q, "RolesGuard") =>
            /\ q.resp.status = Forbidden
            /\ q.trace = <<"JwtAuthGuard", "RolesGuard">>

\* a request was stopped by the RolesGuard after passing the JwtAuthGuard
C7_Witness ==
  \E r \in Reqs :
    /\ RejectedBy(req[r], "RolesGuard")
    /\ req[r].trace = <<"JwtAuthGuard", "RolesGuard">>
    /\ req[r].resp.status = Forbidden

\* C8: the identity attached by the JwtAuthGuard carries the role stored for
\* its subject; once update(id, {role: r}) completed (r the role of the most
\* recent such update), a later request with any token for id carries r and
\* the RolesGuard and OwnershipGuard decide it by r, not by the token's role.
C8_StoredRoleDecides ==
  \A r \in Reqs :
    LET q == req[r]
        sub == q.user.sub
        R == requiredRoles(q.route)
    IN (Passed(q, "JwtAuthGuard") /\ q.user # NoUser /\ ~Evaluated(q, "handler")) =>
         /\ q.user.role = findById(users, userPasswords, sub)[1].role
         /\ sub \in DOMAIN lastRole =>
              /\ q.user.role = lastRole[sub]
              /\ Evaluated(q, "RolesGuard") =>
                   (Passed(q, "RolesGuard") <=>
                      (Len(R.roles) = 0 \/ Includes(R.roles, lastRole[sub])))
              /\ Evaluated(q, "OwnershipGuard") =>
                   (Passed(q, "OwnershipGuard") <=>
                      (lastRole[sub] = ADMIN \/ sub = q.params.id))

\* a token signed with the old role was decided by the RolesGuard with the
\* role a later update stored
C8_Witness ==
  \E r \in Reqs :
    /\ Passed(req[r], "JwtAuthGuard")
    /\ req[r].user # NoUser
    /\ req[r].user.sub \in DOMAIN lastRole
    /\ req[r].token.claims.role # req[r].user.role
    /\ req[r].route = "GET /users"
    /\ Passed(req[r], "RolesGuard")
    /\ ~Evaluated(req[r], "handler")

\* C9: a RolesGuard evaluated for a non-empty role list, or an OwnershipGuard,
\* with request.user absent rejects with 403 and never passes; the RolesGuard's
\* message for the absent identity differs from every role-mismatch message.
C9_AbsentIdentityForbidden ==
  /\ (unit.pc = "roles" /\ unit.user = NoUser /\ unit.required.defined
        /\ Len(unit.required.roles) > 0) =>
       /\ ~unit.roles.pass
       /\ unit.roles.status = Forbidden
       /\ \A u \in UnitUsers \ {NoUser} :
            LET mismatch == RolesGuard_canActivate(unit.required, u)
            IN ~mismatch.pass => mismatch.message # unit.roles.message
  /\ (unit.pc = "ownership" /\ unit.user = NoUser) =>
       /\ ~unit.ownership.pass
       /\ unit.ownership.status = Forbidden

\* the OwnershipGuard threw 403 for a context without request.user whose
\* params name an id
C9_Witness ==
  /\ unit.pc = "ownership"
  /\ unit.user = NoUser
  /\ param(unit.params, "id") = "1"
  /\ ~unit.ownership.pass
  /\ unit.ownership.status = Forbidden

\* C10: a RolesGuard evaluated for a route whose role list is unset or empty
\* passes, whatever request.user is.
C10_NoRolesPasses ==
  (unit.pc = "roles"
     /\ (~unit.required.defined \/ Len(unit.required.roles) = 0)) =>
    unit.roles = Pass

\* the RolesGuard passed a User on a route declaring the empty role list
C10_Witness ==
  /\ unit.pc = "roles"
  /\ unit.required.defined
  /\ Len(unit.required.roles) = 0
  /\ unit.user # NoUser
  /\ unit.user.role = USER
  /\ unit.roles.pass

\* String.prototype.includes
Contains(s, t) ==
  \E i \in 1..(Len(s) - Len(t) + 1) : SubSeq(s, i, i + Len(t) - 1) = t

\* a RolesGuard decision that is a role mismatch
RoleMismatch(u) ==
  /\ u.pc = "roles"
  /\ u.user # NoUser
  /\ u.required.defined
  /\ Len(u.required.roles) > 0
  /\ ~Includes(u.required.roles, u.user.role)

\* C11: the RolesGuard tests plain membership: an identity passes a non-empty
\* role list iff its role is an element of it; in particular an Admin is
\* rejected with 403 (role mismatch, not the no-identity reason) by every list
\* that does not contain admin.
C11_NoRoleHierarchy ==
  (unit.pc = "roles" /\ unit.user # NoUser /\ unit.required.defined
     /\ Len(unit.required.roles) > 0) =>
    /\ unit.roles.pass <=>
         (\E i \in 1..Len(unit.required.roles) :
            unit.required.roles[i] = unit.user.role)
    /\ (unit.user.role = "admin" /\ ~Includes(unit.required.roles, "admin")) =>
         /\ ~unit.roles.pass
         /\ unit.roles.status = Forbidden
         /\ unit.roles.message #
              RolesGuard_canActivate(unit.required, NoUser).message

\* an Admin was rejected by a route that requires moderator only
C11_Witness ==
  /\ unit.pc = "roles"
  /\ unit.user.role = "admin"
  /\ unit.required.roles = <<"moderator">>
  /\ ~unit.roles.pass
  /\ unit.roles.status = Forbidden

\* C12 (as stated): a role-mismatch message names every required role and the
\* caller's role; for a User on a route requiring {Admin, Moderator} it
\* contains "Admin", "Moderator" and "user".
C12_MessageNamesRolesCapitalised ==
  RoleMismatch(unit) =>
    /\ \A i \in 1..Len(unit.required.roles) :
         Contains(unit.roles.message, unit.required.roles[i])
    /\ Contains(unit.roles.message, unit.user.role)
    /\ (unit.user.role = "user"
          /\ unit.required.roles \in {<<"admin", "moderator">>,
                                      <<"moderator", "admin">>}) =>
         /\ Contains(unit.roles.message, "Admin")
         /\ Contains(unit.roles.message, "Moderator")
         /\ Contains(unit.roles.message, "user")

\* C12 (amended): a role-mismatch message names every required role and the
\* caller's role by their UserRole values; for a User on a route requiring
\* admin and moderator it contains "admin", "moderator" and "user".
C12_MessageNamesRoles ==
  RoleMismatch(unit) =>
    /\ \A i \in 1..Len(unit.required.roles) :
         Contains(unit.roles.message, unit.required.roles[i])
    /\ Contains(unit.roles.message, unit.user.role)
    /\ (unit.user.role = "user"
          /\ \A ro \in {ADMIN, MODERATOR} : Includes(unit.required.roles, ro)) =>
         /\ Contains(unit.roles.message, "admin")
         /\ Contains(unit.roles.message, "moderator")
         /\ Contains(unit.roles.message, "user")

\* a User was refused by a route requiring admin and moderator
C12_Witness ==
  /\ RoleMismatch(unit)
  /\ unit.user.role = "user"
  /\ unit.required.roles = <<ADMIN, MODERATOR>>
  /\ ~unit.roles.pass
  /\ Contains(unit.roles.message, "Required roles: ")
  /\ Contains(unit.roles.message, "Your role: user")

\* the request's guard chain ended with every guard passing
Authorized(q) == q.pc \in {"handler", "hashing"} \/ Evaluated(q, "handler")

\* every stage that the route's metadata makes applicable decides to pass on
\* the request context: the Authentication Gate unless the route is public,
\* the Role Policy, and the Ownership Policy on the ownership-guarded routes
AllStagesPass(q) ==
  \/ isPublic(q.route)
  \/ /\ q.verified /\ q.token.kind = "valid" /\ q.user # NoUser
     /\ RolesGuard_canActivate(requiredRoles(q.route), q.user).pass
     /\ q.route \in OwnershipRoutes =>
          OwnershipGuard_canActivate(q.user, q.params).pass

\* C13: a handler runs for a request only if every stage applicable to its
\* route passed, and then with the identity resolved from the store attached;
\* a step of a request that is not past its guards (still in them, or
\* rejected by one) leaves users and userPasswords as they were, so that a
\* User's PATCH on another id, or a User's DELETE, changes nothing.
C13_HandlerOnlyAfterAllStages ==
  [][\A r \in Reqs :
       LET q == req[r]
           p == req'[r]
       IN /\ Authorized(p) => AllStagesPass(p)
          /\ (p.pc = "handler" /\ ~isPublic(p.route)) =>
               p.user = validateUserById(users', userPasswords', p.token.claims.sub)
          /\ (p # q /\ ~Authorized(p)) =>
               /\ users' = users
               /\ userPasswords' = userPasswords
          /\ (p # q /\ ~Authorized(p) /\ p.pc = "done") =>
               p.resp.status \in {Unauthorized, Forbidden}
          /\ ( /\ p # q /\ q.user.role = USER
               /\ \/ q.route = "DELETE /users/:id"
                  \/ q.route = "PATCH /users/:id" /\ param(q.params, "id") # q.user.sub ) =>
               /\ users' = users
               /\ userPasswords' = userPasswords
               /\ ~Authorized(p)
               /\ p.pc = "done" => p.resp.status = Forbidden]_vars

\* a User with sub = 2 was refused PATCH /users/1 by the OwnershipGuard and
\* the handler did not run
C13_Witness ==
  /\ req["r1"].route = "PATCH /users/:id"
  /\ req["r1"].user.role = USER
  /\ req["r1"].user.sub = "2"
  /\ param(req["r1"].params, "id") = "1"
  /\ RejectedBy(req["r1"], "OwnershipGuard")
  /\ ~Evaluated(req["r1"], "handler")
  /\ req["r1"].resp.status = Forbidden

\* two request contexts carry the same request: token, route and target id
SameRequest(a, b) ==
  a.route = b.route /\ a.token = b.token /\ a.params = b.params

\* the guard chain of the request has reached its decision
Decided(q) == Authorized(q) \/ q.pc = "done"

\* the decision of the guard chain: allowed, with the identity attached, or
\* the exception of the guard that refused
Decision(q) ==
  IF Authorized(q)
  THEN [pass |-> TRUE, status |-> 0, message |-> "", user |-> q.user]
  ELSE [pass |-> FALSE, status |-> q.resp.status, message |-> q.resp.message,
        user |-> q.user]

VerifiedFor(q, us, pw) ==
  /\ jwtVerify(q.token)
  /\ validateUserById(us, pw, q.token.claims.sub) # NoUser

\* C15: a request context that holds Identity Claims had the Token Verifier
\* called for it, successfully, on its own token, and the claims are for that
\* token's subject; the claims of a context change only in the JwtAuthGuard
\* step of that same request (to the identity resolved for its token), or
\* when the context is dropped, whatever the other request does meanwhile.
C15_ClaimsFromOwnVerification ==
  [][\A r \in Reqs :
       LET q == req[r]
           p == req'[r]
       IN /\ p.user # NoUser =>
               /\ p.verified /\ jwtVerify(p.token)
               /\ p.user.sub = p.token.claims.sub
               /\ Passed(p, "JwtAuthGuard")
          /\ p.pc = "idle" => p.user = NoUser
          /\ p.user # q.user =>
               \/ p.user = NoUser /\ p.pc = "idle"
               \/ /\ AtGuard(r, "JwtAuthGuard")
                  /\ VerifiedFor(q, users, userPasswords)
                  /\ p.token = q.token
                  /\ p.user = validateUserById(users, userPasswords, q.token.claims.sub)]_vars

\* two interleaved requests each hold the claims of their own token's subject
C15_Witness ==
  /\ req["r1"].user.sub = "1" /\ req["r1"].token.claims.sub = "1"
  /\ req["r2"].user.sub = "2" /\ req["r2"].token.claims.sub = "2"
  /\ req["r1"].pc = "guards" /\ req["r2"].pc = "guards"

\* position in users of the record that findByEmail returns for an e-mail
\* address: the first record holding it (0: none)
emailIndex(us, email) ==
  IF \E i \in 1..Len(us) : us[i].email = email
  THEN CHOOSE i \in 1..Len(us) :
         /\ us[i].email = email
         /\ \A j \in 1..(i - 1) : us[j].email # email
  ELSE 0

\* the login step of request r: the handler of POST /auth/login runs
LoginStep(r) == AtHandler(r, "POST /auth/login") /\ req'[r].pc = "done"

\* C17: a login succeeds exactly when the store holds a user with the given
\* e-mail address, the password verifies against that user's stored hash and
\* the user is active; with an unknown address, a wrong password or an
\* inactive user it ends with 401 Unauthorized, returns no data and leaves the
\* set of issued tokens as it was.
C17_LoginOnlyWithValidCredentials ==
  [][\A r \in Reqs :
       LoginStep(r) =>
         LET dto == req[r].body
             i == emailIndex(users, dto.email)
             exists == i # 0
             verifies == exists /\ dto.email = users[i].email
                           /\ users[i].id \in DOMAIN userPasswords
                           /\ userPasswords[users[i].id] = bcryptHash(dto.password)
             active == exists /\ users[i].isActive
             out == req'[r].resp
         IN /\ out.status = 201 <=> (exists /\ verifies /\ active)
            /\ out.status = 201 => out.data # <<>> /\ issued' # {}
            /\ (~exists \/ ~verifies \/ ~active) =>
                 /\ out.status = Unauthorized
                 /\ out.data = <<>>
                 /\ issued' = issued]_vars

\* a login with the right password of a deactivated user was refused
C17_Witness ==
  LET q == req["r1"]
  IN /\ q.route = "POST /auth/login" /\ q.pc = "done"
     /\ q.resp.status = Unauthorized
     /\ emailIndex(users, q.body.email) # 0
     /\ ~users[emailIndex(users, q.body.email)].isActive
     /\ passwordOf(userPasswords, users[emailIndex(users, q.body.email)].id)
          = bcryptHash(q.body.password)

\* C18: on a successful login the token is signed over exactly the claims
\* sub, email, username and role of the stored user matched by the e-mail
\* address, sub being that user's id, and the user object returned is exactly
\* that user's id, email, username, role and isActive, without the password.
C18_TokenClaimsOfMatchedUser ==
  [][\A r \in Reqs :
       (LoginStep(r) /\ req'[r].resp.status = 201) =>
         LET u == users[emailIndex(users, req[r].body.email)]
             data == req'[r].resp.data[1]
         IN /\ emailIndex(users, req[r].body.email) # 0
            /\ DOMAIN data.access_token = {"sub", "email", "username", "role"}
            /\ data.access_token.sub = u.id
            /\ data.access_token.email = u.email
            /\ data.access_token.username = u.username
            /\ data.access_token.role = u.role
            /\ data.access_token \in issued'
            /\ DOMAIN data.user = {"id", "email", "username", "role", "isActive"}
            /\ \A f \in DOMAIN data.user : data.user[f] = u[f]
            /\ "password" \notin DOMAIN data.user
            /\ \A f \in {"id", "email", "username", "role"} :
                 data.user[f] # passwordOf(userPasswords, u.id)]_vars

\* user 2, promoted to moderator since, logged in: the token carries the
\* stored role and the user's id as subject
C18_Witness ==
  LET q == req["r1"]
  IN /\ q.route = "POST /auth/login" /\ q.pc = "done"
     /\ q.resp.status = 201
     /\ q.resp.data[1].access_token.sub = "2"
     /\ q.resp.data[1].access_token.role = MODERATOR
     /\ q.resp.data[1].user.id = "2"
     /\ q.resp.data[1].access_token \in issued

\* the step leaves the user records and the password entries as they were
StoreUnchanged == users' = users /\ userPasswords' = userPasswords

\* C19: a failing store operation leaves the store unchanged: create with an
\* e-mail address that a stored user holds ends with 409 Conflict, update and
\* remove with an id that no stored user has end with 404 Not Found, and in
\* each case no user record and no password entry is added, removed or
\* modified; and whenever one of the three ends with 409 or 404 the store is
\* as it was.
C19_FailedOperationKeepsStore ==
  [][\A r \in Reqs :
       LET q == req[r]
           p == req'[r]
           held == \E i \in 1..Len(users) : users[i].email = q.body.email
           known == \E i \in 1..Len(users) : users[i].id = param(q.params, "id")
       IN /\ (AtHandler(r, "POST /users") /\ held) =>
               /\ p.pc = "done" /\ p.resp.status = 409
               /\ p.resp.message = "User with this email already exists"
               /\ StoreUnchanged
          /\ (AtHandler(r, "PATCH /users/:id") /\ ~known) =>
               /\ p.pc = "done" /\ p.resp.status = 404
               /\ StoreUnchanged
          /\ (AtHandler(r, "DELETE /users/:id") /\ ~known) =>
               /\ p.pc = "done" /\ p.resp.status = 404
               /\ StoreUnchanged
          /\ (p # q /\ p.pc = "done" /\ p.resp.status \in {404, 409}) =>
               StoreUnchanged]_vars

\* after a removal, a create with the removed user's e-mail address was
\* answered 409 Conflict
C19_Witness ==
  LET q == req["r1"]
  IN /\ q.route = "POST /users" /\ q.pc = "done"
     /\ q.resp.status = 409
     /\ \E i \in 1..Len(users) : users[i].email = q.body.email /\ ~users[i].isActive
     /\ Len(users) = 2

\* C20: remove is a soft delete: right after remove(id) succeeded, and for as
\* long as id was not re-activated, findById(id) returns the record with
\* isActive false; a once removed id stays in the store; findAll returns no
\* record with isActive false, nor does the response of GET /users; and no
\* step makes the number of stored records smaller.
C20_RemoveIsSoftDelete ==
  [][/\ Len(users') >= Len(users)
     /\ \A id \in everRemoved' : findById(users', userPasswords', id) # <<>>
     /\ \A id \in removed' :
          /\ findById(users', userPasswords', id) # <<>>
          /\ ~findById(users', userPasswords', id)[1].isActive
     /\ \A i \in 1..Len(findAll(users')) : findAll(users')[i].isActive
     /\ \A r \in Reqs :
          LET q == req[r]
              p == req'[r]
              id == param(q.params, "id")
          IN /\ (AtHandler(r, "DELETE /users/:id") /\ p.resp.status = 200) =>
                  /\ findById(users', userPasswords', id) # <<>>
                  /\ ~findById(users', userPasswords', id)[1].isActive
                  /\ Len(users') = Len(users)
                  /\ \A i \in 1..Len(findAll(users')) : findAll(users')[i].id # id
             /\ (AtHandler(r, "GET /users") /\ p.pc = "done") =>
                  \A i \in 1..Len(p.resp.data) : p.resp.data[i].isActive]_vars

\* DELETE /users/2 succeeded: the record of user 2 is still stored, inactive,
\* and findAll no longer lists it
C20_Witness ==
  LET q == req["r1"]
  IN /\ q.route = "DELETE /users/:id" /\ q.pc = "done"
     /\ q.resp.status = 200
     /\ param(q.params, "id") = "2"
     /\ findById(users, userPasswords, "2") # <<>>
     /\ ~findById(users, userPasswords, "2")[1].isActive
     /\ Len(findAll(users)) < Len(users)

\* the Ownership Policy as a function of role, subject id and target id only
OwnershipVerdict(role, sub, target) ==
  IF role = ADMIN \/ sub = target THEN "allow" ELSE "deny"

\* C21: the OwnershipGuard decides from the identity's role, its subject id
\* and the id path parameter alone, whether or not a user with that id is
\* stored: a non-Admin asking for an id that is not its own and that no
\* stored user has is refused 403 Forbidden, never 404; and a 404 is only ever
\* the answer of a handler, after every guard passed.
C21_OwnershipIgnoresExistence ==
  [][\A r \in Reqs :
       LET q == req[r]
           p == req'[r]
           target == param(q.params, "id")
       IN /\ AtGuard(r, "OwnershipGuard") =>
               /\ OwnershipVerdict(q.user.role, q.user.sub, target) = "allow" =>
                    Passed(p, "OwnershipGuard")
               /\ OwnershipVerdict(q.user.role, q.user.sub, target) = "deny" =>
                    /\ RejectedBy(p, "OwnershipGuard")
                    /\ p.resp.status = Forbidden
               /\ ( /\ q.user.role # ADMIN /\ q.user.sub # target
                    /\ findIndex(users, target) = 0 ) =>
                    /\ p.pc = "done"
                    /\ p.resp.status = Forbidden
                    /\ p.resp.status # 404
          /\ (p # q /\ p.pc = "done" /\ p.resp.status = 404) =>
               /\ Authorized(p)
               /\ \A i \in 1..Len(Guards(p.route)) : Passed(p, Guards(p.route)[i])]_vars

\* user 2 asked for the user with id 3, which is not stored, and was refused
\* 403 by the OwnershipGuard
C21_Witness ==
  LET q == req["r1"]
  IN /\ q.route \in OwnershipRoutes
     /\ q.user.role = USER /\ q.user.sub = "2"
     /\ param(q.params, "id") = "3"
     /\ findIndex(users, "3") = 0
     /\ RejectedBy(q, "OwnershipGuard")
     /\ q.resp.status = Forbidden

\* the step gives the Admin role to a record that did not have it: a new
\* record with role admin, or a stored record whose role becomes admin
BecomesAdmin(i) ==
  /\ i \in 1..Len(users')
  /\ users'[i].role = ADMIN
  /\ i > Len(users) \/ users[i].role # ADMIN

\* C22: every stored user with the Admin role is the seeded admin or was given
\* the role by a request that passed authorization with an Admin identity: a
\* step that gives a record the Admin role is the handler step of a request
\* whose attached identity has role admin.
C22_AdminOnlyFromAdmin ==
  [][\A i \in 1..Len(users') :
       BecomesAdmin(i) =>
         \E r \in Reqs :
           /\ req'[r] # req[r]
           /\ Authorized(req[r])
           /\ req[r].user.role = ADMIN]_vars

\* C23: under any sequence or interleaving of create, update and remove, no
\* two stored user records have the same e-mail address.
C23_EmailsUnique ==
  \A i, j \in 1..Len(users) : i # j => users[i].email # users[j].email

\* C24: under any sequence or interleaving of create, update and remove, no
\* two stored user records have the same id, every id with a password entry
\* is the id of a stored record, the record at position i has id i (ids are
\* assigned as record count + 1), and no step removes a record.
C24_IdsUnique ==
  [][/\ \A i, j \in 1..Len(users') : i # j => users'[i].id # users'[j].id
     /\ \A id \in DOMAIN userPasswords' : \E i \in 1..Len(users') : users'[i].id = id
     /\ \A i \in 1..Len(users') : users'[i].id = toString(i)
     /\ Len(users') >= Len(users)
     /\ \A i \in 1..Len(users) : users'[i].id = users[i].id]_vars

\* two creates interleaved at their awaits have both inserted, after a
\* removal: four records with four ids, the removed one without password entry
C24_Witness ==
  /\ Len(users) = 4
  /\ \A r \in Reqs : req[r].route = "POST /users" /\ req[r].pc = "done"
                       /\ req[r].resp.status = 201
  /\ req["r1"].epoch = req["r2"].epoch
  /\ \E i \in 1..Len(users) : ~users[i].isActive /\ users[i].id \notin DOMAIN userPasswords
  /\ Cardinality({users[i].id : i \in 1..Len(users)}) = 4

\* a record of a response body carries a password field, itself or in the
\* user object it holds
CarriesPassword(rec) ==
  \/ "password" \in DOMAIN rec
  \/ "user" \in DOMAIN rec /\ "password" \in DOMAIN rec.user

\* C25: no successful response of a user-facing route contains a stored
\* password hash: the data of a 200 or 201 response has no password field.
C25_NoPasswordInResponse ==
  \A r \in Reqs :
    (req[r].pc = "done" /\ req[r].resp.status \in {200, 201}) =>
      \A i \in 1..Len(req[r].resp.data) : ~CarriesPassword(req[r].resp.data[i])

\* the JwtAuthGuard step of request r, on a non-public route, with a token
\* that verifies and whose subject was removed at some point before
GateOnRemoved(r) ==
  /\ AtGuard(r, "JwtAuthGuard")
  /\ ~isPublic(req[r].route)
  /\ req[r].token.kind = "valid"
  /\ req[r].token.claims.sub \in everRemoved

ActiveAccount(us, sub) ==
  findIndex(us, sub) # 0 /\ us[findIndex(us, sub)].isActive

\* the handler step of request r on a non-public route
HandlerStep(r) ==
  /\ req[r].pc = "handler"
  /\ ~isPublic(req[r].route)
  /\ req'[r] # req[r]

\* C27 (as stated): under any interleaving, no handler of a non-public route
\* executes for a subject whose stored account is inactive at the moment the
\* handler runs: a removal that completes between the request's gate lookup
\* and its handler keeps the handler from reading or writing the store.
C27_NoHandlerForInactiveSubject ==
  [][\A r \in Reqs :
       HandlerStep(r) => ActiveAccount(users, req[r].user.sub)]_vars

\* C27 (amended): under any interleaving, a handler of a non-public route
\* executes only for a request whose JwtAuthGuard lookup found the subject's
\* account active at the moment of the lookup; the lookup is the only check:
\* a request whose lookup comes after a deactivation is refused 401, and once
\* the guards have passed the handler executes whatever has happened to the
\* subject's account since.
C27_ActiveAtGateLookup ==
  [][\A r \in Reqs :
       LET q == req[r]
           p == req'[r]
       IN /\ ( /\ AtGuard(r, "JwtAuthGuard") /\ p # q
               /\ ~isPublic(q.route) /\ q.token.kind = "valid" ) =>
               /\ Passed(p, "JwtAuthGuard") <=>
                    ActiveAccount(users, q.token.claims.sub)
               /\ ~ActiveAccount(users, q.token.claims.sub) =>
                    /\ RejectedBy(p, "JwtAuthGuard")
                    /\ p.resp.status = Unauthorized
          /\ (p.pc = "handler" /\ ~isPublic(p.route)) =>
               /\ Passed(p, "JwtAuthGuard")
               /\ p.token.kind = "valid"
               /\ p.user.sub = p.token.claims.sub
          /\ HandlerStep(r) =>
               /\ p.pc = "done"
               /\ Evaluated(p, "handler")
               /\ p.resp.status \notin {Unauthorized, Forbidden}]_vars

\* user 2 passed all guards of its PATCH, then the DELETE /users/2 of an Admin
\* completed: the handler of the PATCH is about to run for an inactive subject
C27_Witness ==
  /\ req["r1"].route = "PATCH /users/:id"
  /\ req["r1"].pc = "handler"
  /\ req["r1"].user.sub = "2"
  /\ ~ActiveAccount(users, "2")
  /\ req["r2"].route = "DELETE /users/:id"
  /\ param(req["r2"].params, "id") = "2"
  /\ req["r2"].pc = "done"
  /\ req["r2"].resp.status = 200

====
